---- MODULE Spec2Model ----
(***************************************************************************)
(* Function-deployment lifecycle of one tool record: the create, edit and  *)
(* delete request handlers of the tools controller, the detached           *)
(* deploy / poll / reconcile chain each deployment attempt runs, and the   *)
(* serverless backend the function provider talks to.                      *)
(***************************************************************************)
EXTENDS Naturals, FiniteSets, Sequences, TLC

\* Number of functionIds uuidv4() hands out in one run (attempts 1..MaxAttempts).
MaxAttempts == 2

Undefined == "undefined"
NoFunction == 0

FUNCTION_TOOL == "FUNCTION_TOOL"
RAG_TOOL == "RAG_TOOL"
ToolType == {FUNCTION_TOOL, RAG_TOOL}

PENDING == "PENDING"
READY == "READY"
ERROR == "ERROR"
ToolState == {PENDING, READY, ERROR}

FunctionIds == 1..MaxAttempts

Codes == {"c1", "c2"}
Requirements == {"r1"}
EnvironmentVariables == {Undefined, "env1"}
Runtimes == {Undefined, "python310"}

\* req.body of addToolApi / editToolApi, restricted to the fields the flows read
\* (name, description, schema, ... are stored and never read by them).
Bodies == [type : ToolType, code : Codes, requirements : Requirements,
           environmentVariables : EnvironmentVariables, runtime : Runtimes]

VARIABLES
    tool,        \* the persisted tool record, or NoTool
    nextId,      \* next functionId uuidv4() returns
    attempts,    \* functionId -> the detached promise chain of that attempt
    backend,     \* functionId -> lifecycle state of function-<id> in the backend
    editReq,     \* the editToolApi invocation in progress
    delReq,      \* the deleteToolApi invocation in progress
    agentHasTool,\* some agent references the tool
    deleteCalls, \* history: the deleteFunction invocations of the attempts' chains
    deleteFailed,\* history: an awaited deleteFunction was rejected
    touched,     \* history: an edit or delete request reached the tool
    retyped,     \* history: attempts in flight whose tool's type was changed away
    wait,        \* one call of waitForFunctionToBeActive, loop by loop
    deploy       \* one call of deployFunction, backend call by backend call

vars == <<tool, nextId, attempts, backend, editReq, delReq, agentHasTool,
          deleteCalls, deleteFailed, touched, retyped, wait, deploy>>

\* No record yet, and the record after deleteToolById removed it.
NoTool == [exists |-> FALSE, deleted |-> FALSE]
DeletedTool == [exists |-> FALSE, deleted |-> TRUE]

\* functionLogs is absent, or the text getFunctionLogs returned.
NoLogs == Undefined
Logs == {NoLogs, "logs"}

IdleAttempt == [pc |-> "idle", kind |-> "none", old |-> NoFunction,
                isActive |-> FALSE, modified |-> 0, notification |-> "none",
                description |-> "none", response |-> 0]

IdleReq == [pc |-> "idle"]

\* The last deleteToolApi invocation ended in the rejection of its deleteFunction.
RejectedReq == [pc |-> "idle", rejected |-> TRUE]

\* The last deleteToolApi invocation removed the record of a FUNCTION_TOOL after
\* its deleteFunction had found the function of the record it read in the
\* backend and deleted it.
RemovedFunctionToolReq == [pc |-> "idle", removedFunctionTool |-> TRUE]

\* No call of waitForFunctionToBeActive is being followed loop by loop.
IdleWait == [pc |-> "idle"]

\* No call of deployFunction is being followed call by call.
IdleDeploy == [pc |-> "idle"]

----------------------------------------------------------------------------
(* Function provider                                                       *)

\* deployFunction: upload, existence probe, then create or update.  `probe` is
\* what getFunction answered: "found", "notfound" (code 5) or "error".
deployFunction(uploadOk, probe, callOk) ==
    IF ~uploadOk THEN [ok |-> FALSE, calls |-> <<"uploadBuffer">>]
    ELSE IF probe = "error"
         THEN [ok |-> FALSE, calls |-> <<"uploadBuffer", "getFunction">>]
    ELSE LET call == IF probe = "found" THEN "updateFunction" ELSE "createFunction"
         IN  [ok |-> callOk, calls |-> <<"uploadBuffer", "getFunction", call>>]

\* The backend has a function of this id (building, running or failed).
hasFunction(b, functionId) == functionId \in FunctionIds /\ b[functionId] # "ABSENT"

\* deleteFunction: the backend state after the call (a rejected call deletes nothing).
deleteFunction(b, functionId, ok) ==
    IF ok /\ functionId \in FunctionIds
    THEN [b EXCEPT ![functionId] = "ABSENT"]
    ELSE b

\* (mutant) a failed status call is passed on to the caller as a raised error.
getFunctionState_Raises(b, functionId, statusOk) ==
    IF statusOk /\ b[functionId] # "ABSENT" THEN b[functionId] ELSE "raised"

\* getFunctionState: the backend's state, or the sentinel when the status call fails.
getFunctionState(b, functionId, statusOk) ==
    IF statusOk /\ b[functionId] # "ABSENT" THEN b[functionId] ELSE "ERROR"

\* (mutant) the loop takes a failed build for an active function.
waitIteration_FailedIsActive(functionState) ==
    IF functionState \in {"ACTIVE", "FAILED"} THEN "true"
    ELSE IF functionState # "DEPLOYING" THEN "false"
    ELSE "sleep"

\* (mutant) the loop keeps polling a function that is neither active nor deploying.
waitIteration_KeepsPolling(functionState) ==
    IF functionState = "ACTIVE" THEN "true" ELSE "sleep"

\* One iteration of waitForFunctionToBeActive's loop on the observed state:
\* "true" / "false" when it returns, "sleep" when it backs off.
waitIteration(functionState) ==
    IF functionState = "ACTIVE" THEN "true"
    ELSE IF functionState # "DEPLOYING" THEN "false"
    ELSE "sleep"

\* let waitTime = 5000, the cap of Math.min(waitTime * 2, 60000), and the default
\* of maxWaitTime (ms).
InitialWaitTime == 5000
MaxBackoff == 60000
DefaultMaxWaitTime == 180000

Min(a, b) == IF a < b THEN a ELSE b

\* (mutant) the loop still polls when the elapsed time equals maxWaitTime.
loopCondition_Inclusive(elapsed, maxWaitTime) == elapsed <= maxWaitTime

\* (mutant) a do-while loop: the first poll is made whatever maxWaitTime is.
loopCondition_FirstPollAlways(elapsed, maxWaitTime) == elapsed = 0 \/ elapsed < maxWaitTime

\* while (Date.now() - startTime < maxWaitTime)
loopCondition(elapsed, maxWaitTime) == elapsed < maxWaitTime

\* (mutant) the loop never backs off.
nextWaitTime_Constant(waitTime) == waitTime

\* (mutant) the back-off doubles without a cap.
nextWaitTime_Uncapped(waitTime) == waitTime * 2

\* waitTime = Math.min(waitTime * 2, 60000)
nextWaitTime(waitTime) == Min(waitTime * 2, MaxBackoff)

----------------------------------------------------------------------------
(* Tool record store                                                       *)

\* editTool: unconditional $set of the patch on the tool (no-op when it is gone).
editTool(t, patch) ==
    IF t.exists
    THEN [f \in DOMAIN t |-> IF f \in DOMAIN patch THEN patch[f] ELSE t[f]]
    ELSE t

\* The filter of an editToolUnsafe call matches the record.
Matches(t, filter) ==
    /\ t.exists
    /\ \A f \in DOMAIN filter : t[f] = filter[f]

\* editToolUnsafe: conditional update; the record after it and its modifiedCount
\* (the number of records the update changed: a matched record the patch leaves
\* as it was is not counted).
editToolUnsafe(t, filter, patch) ==
    IF Matches(t, filter)
    THEN [tool |-> editTool(t, patch),
          modifiedCount |-> IF editTool(t, patch) # t THEN 1 ELSE 0]
    ELSE [tool |-> t, modifiedCount |-> 0]

----------------------------------------------------------------------------
Init ==
    /\ tool = NoTool
    /\ nextId = 1
    /\ attempts = [i \in FunctionIds |-> IdleAttempt]
    /\ backend = [i \in FunctionIds |-> "ABSENT"]
    /\ editReq = IdleReq
    /\ delReq = IdleReq
    /\ agentHasTool = FALSE
    /\ deleteCalls = {}
    /\ deleteFailed = FALSE
    /\ touched = FALSE
    /\ retyped = {}
    /\ wait = IdleWait
    /\ deploy = IdleDeploy

\* A deleteFunction invocation by the chain of attempt `att`.
Call(att, functionId) == [att |-> att, functionId |-> functionId]

----------------------------------------------------------------------------
(* addToolApi                                                              *)

\* (mutant) the handler holds its answer back until the chain has ended.
StartAttempt_NoResponse(kind, old) ==
    [pc |-> "deploy", kind |-> kind, old |-> old, isActive |-> FALSE,
     modified |-> 0, notification |-> "none", description |-> "none",
     response |-> 0]

\* The detached chain deployFunction(...).then(...) as the handler leaves it; the
\* handler answers 302 in the same synchronous run.
StartAttempt(kind, old) ==
    [pc |-> "deploy", kind |-> kind, old |-> old, isActive |-> FALSE,
     modified |-> 0, notification |-> "none", description |-> "none",
     response |-> 302]

AddToolApi(body) ==
    LET isFunctionTool == body.type = FUNCTION_TOOL
        functionId == IF isFunctionTool THEN nextId ELSE NoFunction
    IN  /\ tool = NoTool
        /\ isFunctionTool => nextId <= MaxAttempts
        /\ tool' = [exists |-> TRUE, deleted |-> FALSE, type |-> body.type,
                    state |-> IF isFunctionTool THEN PENDING ELSE READY,
                    functionId |-> functionId, functionLogs |-> NoLogs,
                    code |-> body.code, requirements |-> body.requirements,
                    environmentVariables |-> body.environmentVariables]
        /\ IF isFunctionTool
           THEN /\ attempts' = [attempts EXCEPT ![functionId] = StartAttempt("create", NoFunction)]
                /\ nextId' = nextId + 1
           ELSE UNCHANGED <<attempts, nextId>>
        /\ UNCHANGED <<deploy, retyped, wait, backend, editReq, delReq, agentHasTool, deleteCalls, deleteFailed, touched>>

----------------------------------------------------------------------------
(* editToolApi                                                             *)

\* JavaScript !== on two values read out of req.body and out of the stored
\* record: two objects are never the same reference, primitives compare by value.
IsObject(v) == v \in EnvironmentVariables \ {Undefined}
StrictNotEqual(a, b) == IF IsObject(a) /\ IsObject(b) THEN TRUE ELSE a # b

\* The record never stores a top-level runtime: getDotProp(existingTool, 'runtime')
\* is undefined.
functionNeedsUpdate(body, existingTool) ==
    \/ StrictNotEqual(body.environmentVariables, existingTool.environmentVariables)
    \/ StrictNotEqual(body.code, existingTool.code)
    \/ StrictNotEqual(body.requirements, existingTool.requirements)
    \/ StrictNotEqual(body.runtime, Undefined)

\* getToolById; an unknown toolId is answered 400 and leaves everything as it is.
\* Of the record read, the handlers use these fields.
getToolById(t) ==
    [type |-> t.type, functionId |-> t.functionId, code |-> t.code,
     requirements |-> t.requirements, environmentVariables |-> t.environmentVariables]

EditToolRead ==
    /\ editReq.pc = "idle"
    /\ tool.exists
    /\ editReq' = [pc |-> "read", existingTool |-> getToolById(tool)]
    /\ touched' = TRUE
    /\ UNCHANGED <<deploy, retyped, wait, tool, nextId, attempts, backend, delReq, agentHasTool,
                   deleteCalls, deleteFailed>>

\* (mutant) the handler's own write clears the record's functionId.
EditPatch_ResetsFunctionId(body) ==
    [type |-> body.type, code |-> body.code,
     requirements |-> body.requirements,
     environmentVariables |-> body.environmentVariables,
     functionId |-> NoFunction,
     state |-> IF body.type = FUNCTION_TOOL THEN PENDING ELSE READY]

\* The patch of the handler's own editTool call.
EditPatch(body) ==
    [type |-> body.type, code |-> body.code,
     requirements |-> body.requirements,
     environmentVariables |-> body.environmentVariables,
     state |-> IF body.type = FUNCTION_TOOL THEN PENDING ELSE READY]

\* From editTool to the response, or to the awaited deleteFunction of a type change.
EditToolWrite(body) ==
    LET existingTool == editReq.existingTool
        typeChangedAway == existingTool.type = FUNCTION_TOOL /\ body.type # FUNCTION_TOOL
        redeploy == ~typeChangedAway /\ body.type = FUNCTION_TOOL
                       /\ functionNeedsUpdate(body, existingTool)
    IN  /\ editReq.pc = "read"
        /\ redeploy => nextId <= MaxAttempts
        /\ tool' = editTool(tool, EditPatch(body))
        /\ IF typeChangedAway
           THEN /\ editReq' = [editReq EXCEPT !.pc = "deleteFunction"]
                /\ UNCHANGED <<attempts, nextId>>
           ELSE /\ editReq' = IdleReq
                /\ IF redeploy
                   THEN /\ attempts' = [attempts EXCEPT ![nextId] =
                                            StartAttempt("edit", existingTool.functionId)]
                        /\ nextId' = nextId + 1
                   ELSE UNCHANGED <<attempts, nextId>>
        /\ retyped' = IF tool.exists /\ tool.type = FUNCTION_TOOL /\ body.type # FUNCTION_TOOL
                      THEN retyped \cup {i \in FunctionIds :
                                            attempts[i].pc \in {"deploy", "wait", "reconcile"}}
                      ELSE retyped
        /\ UNCHANGED <<deploy, wait, backend, delReq, agentHasTool, deleteCalls, deleteFailed, touched>>

\* (mutant) the type change answers without deleting the function.
EditToolDeleteFunction_SkipsDelete(ok) ==
    /\ editReq.pc = "deleteFunction"
    /\ editReq' = IdleReq
    /\ UNCHANGED <<deploy, retyped, wait, backend, deleteFailed, tool, nextId, attempts, delReq,
                   agentHasTool, deleteCalls, touched>>

\* await functionProvider.deleteFunction(existingTool.functionId), then the response
\* (or the propagated rejection).
EditToolDeleteFunction(ok) ==
    /\ editReq.pc = "deleteFunction"
    /\ backend' = deleteFunction(backend, editReq.existingTool.functionId, ok)
    /\ deleteFailed' = (deleteFailed \/ ~ok)
    /\ editReq' = IdleReq
    /\ UNCHANGED <<deploy, retyped, wait, tool, nextId, attempts, delReq, agentHasTool, deleteCalls, touched>>

----------------------------------------------------------------------------
(* The detached chain of one deployment attempt                            *)

\* deployFunction settles: resolved (function-<id> exists and is deploying) or
\* rejected.  Nothing handles the rejection: the chain ends there.
DeployFunction(i, uploadOk, probeOk, callOk) ==
    LET probe == IF ~probeOk THEN "error"
                 ELSE IF backend[i] = "ABSENT" THEN "notfound" ELSE "found"
        res == deployFunction(uploadOk, probe, callOk)
    IN  /\ attempts[i].pc = "deploy"
        /\ IF res.ok
           THEN /\ backend' = [backend EXCEPT ![i] = "DEPLOYING"]
                /\ attempts' = [attempts EXCEPT ![i].pc = "wait"]
           ELSE /\ attempts' = [attempts EXCEPT ![i].pc = "rejected"]
                /\ UNCHANGED backend
        /\ UNCHANGED <<deploy, retyped, wait, tool, nextId, editReq, delReq, agentHasTool, deleteCalls, deleteFailed, touched>>

\* One poll of waitForFunctionToBeActive, the sleep after it and the loop test
\* (`expired`: maxWaitTime has elapsed when the sleep ends).
WaitForFunctionToBeActive(i, statusOk, expired) ==
    LET r == waitIteration(getFunctionState(backend, i, statusOk))
    IN  /\ attempts[i].pc = "wait"
        /\ attempts' = IF r = "sleep" /\ ~expired
                       THEN attempts
                       ELSE [attempts EXCEPT ![i].pc = "reconcile",
                                               ![i].isActive = (r = "true")]
        /\ UNCHANGED <<deploy, retyped, wait, tool, nextId, backend, editReq, delReq, agentHasTool,
                       deleteCalls, deleteFailed, touched>>

\* The filter and the patch of the attempt's editToolUnsafe call.
ReconcileFilter(i) ==
    IF attempts[i].kind = "create"
    THEN [functionId |-> i, type |-> FUNCTION_TOOL]
    ELSE [state |-> PENDING, type |-> FUNCTION_TOOL]

\* (mutant) the edit flow writes its functionId whether or not the function is active.
ReconcilePatch_AlwaysFunctionId(i, logs) ==
    LET isActive == attempts[i].isActive
        state == [state |-> IF isActive THEN READY ELSE ERROR]
        fid == IF attempts[i].kind = "edit" THEN [functionId |-> i] ELSE <<>>
        flogs == IF ~isActive /\ logs # NoLogs THEN [functionLogs |-> logs] ELSE <<>>
    IN  state @@ fid @@ flogs

ReconcilePatch(i, logs) ==
    LET isActive == attempts[i].isActive
        state == [state |-> IF isActive THEN READY ELSE ERROR]
        fid == IF attempts[i].kind = "edit" /\ isActive
               THEN [functionId |-> i] ELSE <<>>
        flogs == IF ~isActive /\ logs # NoLogs THEN [functionLogs |-> logs] ELSE <<>>
    IN  state @@ fid @@ flogs

\* (mutant) the create flow keeps the function that did not become active.
ReconcileDeletes_KeepsBroken(i, modifiedCount) ==
    IF modifiedCount = 0 THEN {i} ELSE {}

\* (mutant) an attempt whose update changed nothing keeps its function.
ReconcileDeletes_KeepsUnmatched(i, modifiedCount) ==
    IF modifiedCount = 0 THEN {}
    ELSE IF attempts[i].kind = "create" /\ ~attempts[i].isActive THEN {i}
    ELSE {}

\* (mutant) the create flow deletes its function after every applied update.
ReconcileDeletes_AlsoWhenActive(i, modifiedCount) ==
    IF modifiedCount = 0 THEN {i}
    ELSE IF attempts[i].kind = "create" THEN {i}
    ELSE {}

\* The deleteFunction calls issued in the synchronous run that follows the
\* conditional update, before addNotification is awaited.  These calls are not
\* awaited by anything that acts on their outcome; they are taken to succeed.
ReconcileDeletes(i, modifiedCount) ==
    IF modifiedCount = 0 THEN {i}
    ELSE IF attempts[i].kind = "create" /\ ~attempts[i].isActive THEN {i}
    ELSE {}

\* getFunctionLogs, editToolUnsafe and what follows up to the next await.
\* `logs` is what getFunctionLogs gave (NoLogs when it failed or gave nothing).
Reconcile(i, logs) ==
    LET res == editToolUnsafe(tool, ReconcileFilter(i), ReconcilePatch(i, logs))
        dels == ReconcileDeletes(i, res.modifiedCount)
    IN  /\ attempts[i].pc = "reconcile"
        /\ logs \in Logs
        /\ tool' = res.tool
        /\ attempts' = [attempts EXCEPT
                           ![i].modified = res.modifiedCount,
                           ![i].pc = IF res.modifiedCount = 0 THEN "done" ELSE "notify"]
        /\ backend' = IF dels = {} THEN backend ELSE deleteFunction(backend, i, TRUE)
        /\ deleteCalls' = deleteCalls \cup {Call(i, f) : f \in dels}
        /\ retyped' = retyped \ {i}
        /\ UNCHANGED <<deploy, wait, nextId, editReq, delReq, agentHasTool, deleteFailed, touched>>

\* (mutant) the edit flow deletes the function it has just put on the record.
NotifyDeletes_DeletesNew(i) ==
    IF attempts[i].kind # "edit" THEN {}
    ELSE {i}

\* The wording of the notification: `Custom code tool "${name}" ${isActive ?
\* 'deployed successfully' : 'failed to deploy'}.`
notificationDescription(isActive) ==
    IF isActive THEN "deployed successfully" ELSE "failed to deploy"

\* The deleteFunction calls the edit flow issues after the notification went out.
NotifyDeletes(i) ==
    IF attempts[i].kind # "edit" THEN {}
    ELSE IF ~attempts[i].isActive THEN {i}
    ELSE IF attempts[i].old # NoFunction THEN {attempts[i].old}
    ELSE {}

\* await addNotification, io.emit and the rest of the chain.  A rejected
\* addNotification goes to the chain's catch, which only logs.
Notify(i, notificationOk) ==
    LET dels == IF notificationOk THEN NotifyDeletes(i) ELSE {}
    IN  /\ attempts[i].pc = "notify"
        /\ attempts' = [attempts EXCEPT
                           ![i].pc = "done",
                           ![i].notification = IF notificationOk THEN "emitted" ELSE "failed",
                           ![i].description = notificationDescription(attempts[i].isActive)]
        /\ backend' = IF dels = {} THEN backend
                      ELSE deleteFunction(backend, CHOOSE f \in dels : TRUE, TRUE)
        /\ deleteCalls' = deleteCalls \cup {Call(i, f) : f \in dels}
        /\ UNCHANGED <<deploy, retyped, wait, tool, nextId, editReq, delReq, agentHasTool, deleteFailed, touched>>

----------------------------------------------------------------------------
(* deleteToolApi                                                           *)

\* (mutant) the handler removes the record without deleting the function.
DeleteToolFirstStep_SkipFunction(existingTool) == "remove"

\* What the handler does first with the record it read: a FUNCTION_TOOL's function
\* is deleted before anything is removed.
DeleteToolFirstStep(existingTool) ==
    IF existingTool.type = FUNCTION_TOOL THEN "deleteFunction" ELSE "remove"

\* getToolById; an unknown toolId is answered 404.
DeleteToolRead ==
    /\ delReq.pc = "idle"
    /\ tool.exists
    /\ delReq' = [pc |-> DeleteToolFirstStep(tool),
                  existingTool |-> [type |-> tool.type, functionId |-> tool.functionId],
                  functionDeleted |-> FALSE, functionExisted |-> FALSE]
    /\ touched' = TRUE
    /\ UNCHANGED <<deploy, retyped, wait, tool, nextId, attempts, backend, editReq, agentHasTool,
                   deleteCalls, deleteFailed>>

\* (mutant) the handler goes on to remove the record when deleteFunction fails.
DeleteToolDeleteFunction_SwallowsFailure(ok) ==
    /\ delReq.pc = "deleteFunction"
    /\ backend' = deleteFunction(backend, delReq.existingTool.functionId, ok)
    /\ deleteFailed' = (deleteFailed \/ ~ok)
    /\ delReq' = [delReq EXCEPT !.pc = "remove", !.functionDeleted = TRUE,
                                !.functionExisted =
                                    hasFunction(backend, delReq.existingTool.functionId)]
    /\ UNCHANGED <<deploy, retyped, wait, tool, nextId, attempts, editReq, agentHasTool,
                   deleteCalls, touched>>

\* await functionProvider.deleteFunction(existingTool?.functionId); a rejection
\* leaves the handler.
DeleteToolDeleteFunction(ok) ==
    /\ delReq.pc = "deleteFunction"
    /\ backend' = deleteFunction(backend, delReq.existingTool.functionId, ok)
    /\ deleteFailed' = (deleteFailed \/ ~ok)
    /\ delReq' = IF ok
                 THEN [delReq EXCEPT !.pc = "remove", !.functionDeleted = TRUE,
                                     !.functionExisted =
                                         hasFunction(backend, delReq.existingTool.functionId)]
                 ELSE RejectedReq
    /\ UNCHANGED <<deploy, retyped, wait, tool, nextId, attempts, editReq, agentHasTool, deleteCalls, touched>>

\* Promise.all([deleteToolById, removeAgentsTool]) and the response.
DeleteToolRemove ==
    /\ delReq.pc = "remove"
    /\ tool' = IF tool.exists THEN DeletedTool ELSE tool
    /\ agentHasTool' = FALSE
    /\ delReq' = IF /\ tool.exists
                    /\ tool.type = FUNCTION_TOOL
                    /\ delReq.existingTool.type = FUNCTION_TOOL
                    /\ delReq.functionExisted
                 THEN RemovedFunctionToolReq
                 ELSE IdleReq
    /\ UNCHANGED <<deploy, retyped, wait, nextId, attempts, backend, editReq, deleteCalls, deleteFailed, touched>>

----------------------------------------------------------------------------
(* Environment                                                             *)

\* The backend finishes a build: the function becomes ACTIVE or FAILED.
BackendSettles(f, state) ==
    /\ backend[f] = "DEPLOYING"
    /\ state \in {"ACTIVE", "FAILED"}
    /\ backend' = [backend EXCEPT ![f] = state]
    /\ UNCHANGED <<deploy, retyped, wait, tool, nextId, attempts, editReq, delReq, agentHasTool,
                   deleteCalls, deleteFailed, touched>>

\* Some agent is given the tool.
AgentAddsTool ==
    /\ tool.exists
    /\ ~agentHasTool
    /\ agentHasTool' = TRUE
    /\ UNCHANGED <<deploy, retyped, wait, tool, nextId, attempts, backend, editReq, delReq,
                   deleteCalls, deleteFailed, touched>>

----------------------------------------------------------------------------
Next ==
    \/ \E body \in Bodies : AddToolApi(body)
    \/ EditToolRead
    \/ \E body \in Bodies : EditToolWrite(body)
    \/ \E ok \in BOOLEAN : EditToolDeleteFunction(ok)
    \/ \E i \in FunctionIds, uploadOk, probeOk, callOk \in BOOLEAN :
           DeployFunction(i, uploadOk, probeOk, callOk)
    \/ \E i \in FunctionIds, statusOk, expired \in BOOLEAN :
           WaitForFunctionToBeActive(i, statusOk, expired)
    \/ \E i \in FunctionIds, logs \in Logs : Reconcile(i, logs)
    \/ \E i \in FunctionIds, notificationOk \in BOOLEAN : Notify(i, notificationOk)
    \/ DeleteToolRead
    \/ \E ok \in BOOLEAN : DeleteToolDeleteFunction(ok)
    \/ DeleteToolRemove
    \/ \E f \in FunctionIds, state \in {"ACTIVE", "FAILED"} : BackendSettles(f, state)
    \/ AgentAddsTool

Spec == Init /\ [][Next]_vars

\* One step of attempt i's chain.
ChainStep(i) ==
    \/ \E uploadOk, probeOk, callOk \in BOOLEAN : DeployFunction(i, uploadOk, probeOk, callOk)
    \/ \E statusOk, expired \in BOOLEAN : WaitForFunctionToBeActive(i, statusOk, expired)
    \/ \E logs \in Logs : Reconcile(i, logs)
    \/ \E notificationOk \in BOOLEAN : Notify(i, notificationOk)

\* The tool is created and no edit or delete request ever reaches it.  Every
\* chain keeps running: each awaited call settles, and the polling loop ends
\* because maxWaitTime is finite.
CreateNext ==
    \/ \E body \in Bodies : AddToolApi(body)
    \/ \E i \in FunctionIds : ChainStep(i)
    \/ \E f \in FunctionIds, state \in {"ACTIVE", "FAILED"} : BackendSettles(f, state)
    \/ AgentAddsTool

CreateSpec ==
    /\ Init
    /\ [][CreateNext]_vars
    /\ \A i \in FunctionIds : WF_vars(ChainStep(i))

----------------------------------------------------------------------------
(* waitForFunctionToBeActive, loop by loop                                 *)

\* The maxWaitTime arguments followed (ms); callers pass none, so the default.
MaxWaitTimes == {0, 1, 5000, 5001, 20000, 75000, DefaultMaxWaitTime, 260000}

\* The call starts: startTime = Date.now(), waitTime = 5000.  `elapsed` is
\* Date.now() - startTime; a status poll takes no time and a sleep takes exactly
\* its delay.  `observed`, `polledAt` and `slept` record the states polled, the
\* elapsed times at which they were polled and the delays slept.
StartWait(functionId, maxWaitTime) ==
    [pc |-> "test", functionId |-> functionId, maxWaitTime |-> maxWaitTime,
     elapsed |-> 0, waitTime |-> InitialWaitTime,
     observed |-> <<>>, polledAt |-> <<>>, slept |-> <<>>, result |-> "none"]

WaitInit ==
    /\ tool = NoTool
    /\ nextId = 1
    /\ attempts = [i \in FunctionIds |-> IdleAttempt]
    /\ backend \in [FunctionIds -> {"DEPLOYING", "ACTIVE", "FAILED", "ABSENT"}]
    /\ editReq = IdleReq
    /\ delReq = IdleReq
    /\ agentHasTool = FALSE
    /\ deleteCalls = {}
    /\ deleteFailed = FALSE
    /\ touched = FALSE
    /\ retyped = {}
    /\ \E functionId \in FunctionIds, maxWaitTime \in MaxWaitTimes :
           wait = StartWait(functionId, maxWaitTime)
    /\ deploy = IdleDeploy

\* The while condition: enter the loop body, or fall out and return false.
WaitLoopTest ==
    /\ wait.pc = "test"
    /\ wait' = IF loopCondition(wait.elapsed, wait.maxWaitTime)
               THEN [wait EXCEPT !.pc = "poll"]
               ELSE [wait EXCEPT !.pc = "returned", !.result = "false"]
    /\ UNCHANGED <<deploy, tool, nextId, attempts, backend, editReq, delReq, agentHasTool,
                   deleteCalls, deleteFailed, touched, retyped>>

\* await getFunctionState and the two tests on the state it gave.
WaitPoll(statusOk) ==
    LET functionState == getFunctionState(backend, wait.functionId, statusOk)
        r == waitIteration(functionState)
    IN  /\ wait.pc = "poll"
        /\ wait' = [wait EXCEPT !.observed = Append(@, functionState),
                                !.polledAt = Append(@, wait.elapsed),
                                !.pc = IF r = "sleep" THEN "sleep" ELSE "returned",
                                !.result = IF r = "sleep" THEN "none" ELSE r]
        /\ UNCHANGED <<deploy, tool, nextId, attempts, backend, editReq, delReq, agentHasTool,
                       deleteCalls, deleteFailed, touched, retyped>>

\* The setTimeout of waitTime and the back-off.
WaitSleep ==
    /\ wait.pc = "sleep"
    /\ wait' = [wait EXCEPT !.pc = "test",
                            !.elapsed = @ + wait.waitTime,
                            !.slept = Append(@, wait.waitTime),
                            !.waitTime = nextWaitTime(@)]
    /\ UNCHANGED <<deploy, tool, nextId, attempts, backend, editReq, delReq, agentHasTool,
                   deleteCalls, deleteFailed, touched, retyped>>

WaitNext ==
    \/ WaitLoopTest
    \/ \E statusOk \in BOOLEAN : WaitPoll(statusOk)
    \/ WaitSleep
    \/ \E f \in FunctionIds, state \in {"ACTIVE", "FAILED"} : BackendSettles(f, state)

WaitSpec == WaitInit /\ [][WaitNext]_vars

\* One step of the call itself.
WaitStep ==
    \/ WaitLoopTest
    \/ \E statusOk \in BOOLEAN : WaitPoll(statusOk)
    \/ WaitSleep

\* The call keeps running: every status call settles and every timer fires.
WaitFairSpec == WaitInit /\ [][WaitNext]_vars /\ WF_vars(WaitStep)

\* maxWaitTime is a plain number parameter: a caller may pass zero or less.
AnyMaxWaitTimes == MaxWaitTimes \cup {0 - 5000, 0 - 1}

\* A call of waitForFunctionToBeActive with any maxWaitTime, on any backend state.
WaitAnyInit ==
    /\ tool = NoTool
    /\ nextId = 1
    /\ attempts = [i \in FunctionIds |-> IdleAttempt]
    /\ backend \in [FunctionIds -> {"DEPLOYING", "ACTIVE", "FAILED", "ABSENT"}]
    /\ editReq = IdleReq
    /\ delReq = IdleReq
    /\ agentHasTool = FALSE
    /\ deleteCalls = {}
    /\ deleteFailed = FALSE
    /\ touched = FALSE
    /\ retyped = {}
    /\ \E functionId \in FunctionIds, maxWaitTime \in AnyMaxWaitTimes :
           wait = StartWait(functionId, maxWaitTime)
    /\ deploy = IdleDeploy

WaitAnySpec == WaitAnyInit /\ [][WaitNext]_vars

----------------------------------------------------------------------------
(* deployFunction, backend call by backend call                            *)

\* The blob store key of the artifact: `functions/${id}/function.zip`.
functionZip(id) == <<"functions", id, "function.zip">>

\* The fully qualified function name the call returns: .../functions/function-${id}.
functionName(id) == <<"function", id>>

\* The call starts: the archive is built and nothing has been sent yet.  `calls`
\* records the storage and backend calls made, `uploaded` the key written,
\* `probe` what the existence probe answered, `returned` the value returned.
StartDeploy(id) ==
    [pc |-> "upload", id |-> id, calls |-> <<>>, uploaded |-> <<>>,
     probe |-> "none", functionExists |-> FALSE, result |-> "none",
     returned |-> <<>>]

DeployInit ==
    /\ tool = NoTool
    /\ nextId = 1
    /\ attempts = [i \in FunctionIds |-> IdleAttempt]
    /\ backend \in [FunctionIds -> {"DEPLOYING", "ACTIVE", "FAILED", "ABSENT"}]
    /\ editReq = IdleReq
    /\ delReq = IdleReq
    /\ agentHasTool = FALSE
    /\ deleteCalls = {}
    /\ deleteFailed = FALSE
    /\ touched = FALSE
    /\ retyped = {}
    /\ wait = IdleWait
    /\ \E id \in FunctionIds : deploy = StartDeploy(id)

\* (mutant) a failed upload does not stop the call.
afterUpload_Continues(uploadOk) == "probe"

\* await uploadBuffer: a rejection leaves deployFunction.
afterUpload(uploadOk) == IF uploadOk THEN "probe" ELSE "rejected"

\* What getFunction answers for function-<id>: it is there, NOT_FOUND (code 5),
\* or another error.
probeOutcome(b, id, probeOk) ==
    IF ~probeOk THEN "error"
    ELSE IF b[id] = "ABSENT" THEN "notfound" ELSE "found"

\* (mutant) every failed probe is taken for NOT_FOUND.
afterProbe_AnyErrorIsNotFound(probe) == "call"

\* The catch of the probe: only err.code 5 is swallowed.
afterProbe(probe) == IF probe = "error" THEN "rejected" ELSE "call"

\* if (functionExists) updateFunction else createFunction
createOrUpdate(functionExists) ==
    IF functionExists THEN "updateFunction" ELSE "createFunction"

DeployUpload(uploadOk) ==
    /\ deploy.pc = "upload"
    /\ deploy' = [deploy EXCEPT
                     !.calls = Append(@, "uploadBuffer"),
                     !.uploaded = IF uploadOk THEN functionZip(deploy.id) ELSE @,
                     !.pc = afterUpload(uploadOk),
                     !.result = IF afterUpload(uploadOk) = "rejected" THEN "rejected" ELSE @]
    /\ UNCHANGED <<tool, nextId, attempts, backend, editReq, delReq, agentHasTool,
                   deleteCalls, deleteFailed, touched, retyped, wait>>

DeployProbe(probeOk) ==
    LET probe == probeOutcome(backend, deploy.id, probeOk)
    IN  /\ deploy.pc = "probe"
        /\ deploy' = [deploy EXCEPT
                         !.calls = Append(@, "getFunction"),
                         !.probe = probe,
                         !.functionExists = (probe = "found"),
                         !.pc = afterProbe(probe),
                         !.result = IF afterProbe(probe) = "rejected" THEN "rejected" ELSE @]
        /\ UNCHANGED <<tool, nextId, attempts, backend, editReq, delReq, agentHasTool,
                       deleteCalls, deleteFailed, touched, retyped, wait>>

\* createFunction or updateFunction, then `return functionName`; a rejection is
\* logged and rethrown.
DeployCreateOrUpdate(callOk) ==
    /\ deploy.pc = "call"
    /\ deploy' = [deploy EXCEPT
                     !.calls = Append(@, createOrUpdate(deploy.functionExists)),
                     !.pc = IF callOk THEN "resolved" ELSE "rejected",
                     !.result = IF callOk THEN "resolved" ELSE "rejected",
                     !.returned = IF callOk THEN functionName(deploy.id) ELSE @]
    /\ backend' = IF callOk THEN [backend EXCEPT ![deploy.id] = "DEPLOYING"] ELSE backend
    /\ UNCHANGED <<tool, nextId, attempts, editReq, delReq, agentHasTool,
                   deleteCalls, deleteFailed, touched, retyped, wait>>

DeployNext ==
    \/ \E uploadOk \in BOOLEAN : DeployUpload(uploadOk)
    \/ \E probeOk \in BOOLEAN : DeployProbe(probeOk)
    \/ \E callOk \in BOOLEAN : DeployCreateOrUpdate(callOk)

DeploySpec == DeployInit /\ [][DeployNext]_vars

----------------------------------------------------------------------------
(* Properties                                                              *)

\* The attempt's chain has applied its conditional update.
Reconciled(i) == attempts[i].pc \in {"notify", "done"}

\* The attempt's conditional update was applied to the record.
Committed(i) == Reconciled(i) /\ attempts[i].modified = 1

\* The attempt is started and has not reached its conditional update.
Outstanding(i) == attempts[i].pc \in {"deploy", "wait", "reconcile"}

\* The step is attempt i's conditional update.
ReconcileStep(i) == attempts[i].pc = "reconcile" /\ attempts'[i].pc # "reconcile"

\* The record is as attempt b's conditional update left it.
AsWrittenBy(b) ==
    /\ tool.exists
    /\ tool.state = IF attempts[b].isActive THEN READY ELSE ERROR
    /\ attempts[b].isActive => tool.functionId = b

\* C1: for two attempts a (generated first) and b (generated later) of the tool,
\* when b's conditional update has been applied and the record is as b left it,
\* a's conditional update leaves the record's state and functionId as b wrote
\* them and a's chain calls deleteFunction(a); for a create attempt a as for an
\* edit attempt a.
C1_SupersessionSafety ==
    [][\A a, b \in FunctionIds :
          (a < b /\ Committed(b) /\ AsWrittenBy(b) /\ ReconcileStep(a))
          => /\ tool'.state = tool.state
             /\ tool'.functionId = tool.functionId
             /\ Call(a, a) \in deleteCalls']_vars

\* C2 as stated: the record's functionId is always the id of an attempt that
\* activated and whose conditional update was applied.
C2_OnlySuccessfulFunctionId ==
    (tool.exists /\ tool.functionId # NoFunction)
    => /\ attempts[tool.functionId].isActive
       /\ Committed(tool.functionId)

\* C2 amended: the record's functionId is the id its create request generated, or
\* the id of an edit attempt that activated and whose conditional update was
\* applied; the id of an edit attempt that failed to activate, or whose
\* conditional update modified nothing, is never on the record.
C2_FunctionIdProvenance ==
    (tool.exists /\ tool.functionId # NoFunction)
    => \/ attempts[tool.functionId].kind = "create"
       \/ /\ attempts[tool.functionId].kind = "edit"
          /\ attempts[tool.functionId].isActive
          /\ Committed(tool.functionId)

\* An edit attempt's functionId has been written to the record, which was created
\* under another functionId.
C2_Witness ==
    /\ tool.exists
    /\ tool.functionId # NoFunction
    /\ attempts[tool.functionId].kind = "edit"
    /\ \E i \in FunctionIds : attempts[i].kind = "create"

\* C3, its "never zero" half: a FUNCTION_TOOL record is PENDING only while some
\* attempt is outstanding, that is started and not yet reconciled (an attempt
\* whose deployFunction was rejected counts as outstanding: it never reconciles).
C3_PendingHasAnAttempt ==
    (tool.exists /\ tool.type = FUNCTION_TOOL /\ tool.state = PENDING)
    => \E i \in FunctionIds : Outstanding(i) \/ attempts[i].pc = "rejected"

\* Nothing is in progress: no handler, no attempt's chain.
Quiescent ==
    /\ editReq.pc = "idle"
    /\ delReq.pc = "idle"
    /\ \A i \in FunctionIds : attempts[i].pc \in {"idle", "done", "rejected"}

\* No call to the backend or to the notification sink has been rejected.
NoFault ==
    /\ ~deleteFailed
    /\ \A i \in FunctionIds :
          /\ attempts[i].pc # "rejected"
          /\ attempts[i].notification # "failed"

\* C4: once every attempt has resolved and every cleanup deletion has run, at
\* most one function created for the tool is left in the backend.
C4_AtMostOneFunction ==
    (Quiescent /\ NoFault)
    => Cardinality({f \in FunctionIds : backend[f] # "ABSENT"}) <= 1

\* C5: when an attempt's deployFunction is rejected, the record is in state
\* ERROR, deleteFunction has been called on the attempt's functionId, and the
\* request that started the attempt has answered 302.
C5_DeployFailureMarksError ==
    \A i \in FunctionIds :
        (attempts[i].pc = "rejected" /\ tool.exists /\ ~touched)
        => /\ tool.state = ERROR
           /\ Call(i, i) \in deleteCalls
           /\ attempts[i].response = 302

\* The submitted deployment fields have the values the record read by the handler
\* stores (the record stores no runtime).
SameDeployment(body, existingTool) ==
    /\ body.environmentVariables = existingTool.environmentVariables
    /\ body.code = existingTool.code
    /\ body.requirements = existingTool.requirements
    /\ body.runtime = Undefined

\* C6: an edit of a tool that is and stays a FUNCTION_TOOL, submitting the stored
\* environmentVariables, code, requirements and runtime, starts no deployment.
C6_NoRedundantRedeploy ==
    [][\A body \in Bodies :
          (/\ EditToolWrite(body)
           /\ editReq.existingTool.type = FUNCTION_TOOL
           /\ body.type = FUNCTION_TOOL
           /\ SameDeployment(body, editReq.existingTool))
          => attempts' = attempts]_vars

\* C7: an edit of a READY FUNCTION_TOOL that changes no deployment field leaves
\* the record's state and functionId as they are and starts no deployment.
C7_UnrelatedEditKeepsState ==
    [][\A body \in Bodies :
          (/\ EditToolWrite(body)
           /\ tool.exists
           /\ tool.type = FUNCTION_TOOL
           /\ tool.state = READY
           /\ editReq.existingTool.type = FUNCTION_TOOL
           /\ body.type = FUNCTION_TOOL
           /\ SameDeployment(body, editReq.existingTool))
          => /\ tool'.state = tool.state
             /\ tool'.functionId = tool.functionId
             /\ attempts' = attempts]_vars

\* Attempt i's function is untouched in the backend and the record points at it.
ReadyWith(i) ==
    /\ tool.exists
    /\ tool.state = READY
    /\ tool.functionId = i
    /\ backend[i] = "ACTIVE"
    /\ \A c \in deleteCalls : c.functionId # i

C9_FunctionDeletedBeforeRecord ==
    [][/\ ((tool.exists /\ ~tool'.exists) \/ (agentHasTool /\ ~agentHasTool'))
          => /\ delReq.pc = "remove"
             /\ delReq.existingTool.type = FUNCTION_TOOL => delReq.functionDeleted
       /\ (delReq.pc = "deleteFunction" /\ delReq'.pc = "remove")
          => /\ delReq'.functionDeleted
             /\ delReq.existingTool.functionId \in FunctionIds
                => backend'[delReq.existingTool.functionId] = "ABSENT"]_vars

\* deleteFunction has completed for a FUNCTION_TOOL whose record and agent
\* reference are still in place.
C9_Witness ==
    /\ delReq.pc = "remove"
    /\ delReq.existingTool.type = FUNCTION_TOOL
    /\ delReq.functionDeleted
    /\ delReq.existingTool.functionId \in FunctionIds
    /\ backend[delReq.existingTool.functionId] = "ABSENT"
    /\ tool.exists
    /\ agentHasTool

\* C10: while the record is a FUNCTION_TOOL its state changes only from PENDING
\* to READY or ERROR and from READY or ERROR to PENDING, and a new FUNCTION_TOOL
\* record starts PENDING.
C10_StateTransitions ==
    [][/\ (~tool.exists /\ tool'.exists /\ tool'.type = FUNCTION_TOOL)
          => tool'.state = PENDING
       /\ (/\ tool.exists /\ tool'.exists
           /\ tool.type = FUNCTION_TOOL /\ tool'.type = FUNCTION_TOOL
           /\ tool'.state # tool.state)
          => \/ tool.state = PENDING /\ tool'.state \in {READY, ERROR}
             \/ tool.state \in {READY, ERROR} /\ tool'.state = PENDING]_vars

\* The deleteFunction calls attempt i's chain has made.
CallsOf(i) == {c \in deleteCalls : c.att = i}

\* C11: in the create and in the edit flow, the step in which an attempt's
\* conditional update modifies zero records leaves the record as it was, calls
\* deleteFunction on the attempt's own functionId and on nothing else, and ends
\* the chain; afterwards the chain makes no write, emits no notification and
\* deletes no other function.
C11_ZeroModifiedSelfDeletes ==
    [][\A i \in FunctionIds :
          /\ (ReconcileStep(i) /\ attempts'[i].modified = 0)
             => /\ tool' = tool
                /\ attempts'[i].pc = "done"
                /\ attempts'[i].notification = "none"
                /\ CallsOf(i)' = {Call(i, i)}
                /\ backend'[i] = "ABSENT"
                /\ \A f \in FunctionIds \ {i} : backend'[f] = backend[f]
          /\ (attempts[i].pc = "done" /\ attempts[i].modified = 0)
             => /\ attempts'[i] = attempts[i]
                /\ CallsOf(i)' = CallsOf(i)]_vars

\* A create attempt and an edit attempt have both ended on an update that
\* modified nothing, each having deleted its own function.
C11_Witness ==
    \E i, j \in FunctionIds :
        /\ attempts[i].kind = "create" /\ attempts[j].kind = "edit"
        /\ attempts[i].pc = "done" /\ attempts[i].modified = 0
        /\ attempts[j].pc = "done" /\ attempts[j].modified = 0
        /\ CallsOf(i) = {Call(i, i)}
        /\ CallsOf(j) = {Call(j, j)}

\* C12: in the edit flow, the step in which an attempt's conditional update is
\* applied with the new function active writes state READY and the attempt's
\* functionId and deletes nothing; the chain's only deleteFunction call comes in
\* a later step and is on the functionId the edit request read from the record;
\* the chain never calls deleteFunction on its own, new functionId.
C12_EditSuccessDeletesOldAfterWrite ==
    [][\A i \in FunctionIds :
          (attempts[i].kind = "edit" /\ attempts[i].isActive)
          => /\ (ReconcileStep(i) /\ attempts'[i].modified = 1)
                => /\ tool'.state = READY
                   /\ tool'.functionId = i
                   /\ CallsOf(i)' = {}
             /\ (CallsOf(i)' # CallsOf(i) /\ ~ReconcileStep(i))
                => /\ Committed(i)
                   /\ attempts[i].old # NoFunction
                   /\ CallsOf(i)' = {Call(i, attempts[i].old)}
                   /\ backend'[attempts[i].old] = "ABSENT"
             /\ Committed(i)' => Call(i, i) \notin deleteCalls']_vars

\* An edit attempt has written READY and its functionId, and then deleted the
\* function the record pointed to before; its own function is running.
C12_Witness ==
    \E i \in FunctionIds :
        /\ attempts[i].kind = "edit" /\ attempts[i].isActive
        /\ attempts[i].pc = "done" /\ attempts[i].modified = 1
        /\ tool.exists /\ tool.state = READY /\ tool.functionId = i
        /\ attempts[i].old # NoFunction
        /\ CallsOf(i) = {Call(i, attempts[i].old)}
        /\ backend[i] = "ACTIVE"
        /\ backend[attempts[i].old] = "ABSENT"

\* C13: in the edit flow, the step in which an attempt's conditional update is
\* applied with the new function not active writes state ERROR, with
\* functionLogs when logs were retrieved, and leaves the record's functionId as
\* it was; and when the chain has ended it has called deleteFunction on the new
\* functionId and not on the functionId the record held before the edit.
C13_EditFailureMarksError ==
    /\ [][\A i \in FunctionIds :
             (/\ attempts[i].kind = "edit" /\ ~attempts[i].isActive
              /\ ReconcileStep(i) /\ attempts'[i].modified = 1)
             => /\ tool'.state = ERROR
                /\ tool'.functionId = tool.functionId
                /\ tool'.functionLogs \in {tool.functionLogs, "logs"}]_vars
    /\ [](\A i \in FunctionIds :
             (/\ attempts[i].kind = "edit" /\ ~attempts[i].isActive
              /\ attempts[i].pc = "done" /\ attempts[i].modified = 1)
             => /\ Call(i, i) \in deleteCalls
                /\ Call(i, attempts[i].old) \in deleteCalls => attempts[i].old = i)

\* C14 (as stated): while an edit attempt is in flight, from the edit's PENDING
\* write to the attempt's conditional update, no step changes the record's
\* functionId.
C14_FunctionIdKeptWhileInFlight ==
    [][\A i \in FunctionIds :
          (/\ attempts[i].kind = "edit"
           /\ Outstanding(i) /\ Outstanding(i)'
           /\ tool.exists /\ tool'.exists)
          => tool'.functionId = tool.functionId]_vars

\* C14: the functionId of the record changes only in the conditional update of
\* an edit attempt that is applied with the function active, which sets it to
\* that attempt's functionId; the edit request's own write, a failed attempt's
\* update and every other step leave it as it was.
C14_FunctionIdChangesOnlyOnCommit ==
    [][(tool.exists /\ tool'.exists /\ tool'.functionId # tool.functionId)
       => \E i \in FunctionIds :
              /\ attempts[i].kind = "edit" /\ attempts[i].isActive
              /\ ReconcileStep(i) /\ attempts'[i].modified = 1
              /\ tool'.functionId = i]_vars

\* An edit has written PENDING and its attempt is polling, the record still
\* pointing at the function it had before the edit.
C14_Witness ==
    \E i \in FunctionIds :
        /\ attempts[i].kind = "edit"
        /\ attempts[i].pc \in {"wait", "reconcile"}
        /\ attempts[i].old # NoFunction
        /\ tool.exists /\ tool.state = PENDING
        /\ tool.functionId = attempts[i].old

\* The step is the write of an edit request that read a FUNCTION_TOOL and puts
\* another type on the record.
TypeChangedAway ==
    /\ editReq.pc = "read" /\ editReq' # editReq
    /\ editReq.existingTool.type = FUNCTION_TOOL
    /\ tool'.exists /\ tool'.type # FUNCTION_TOOL

\* C15: an edit that changes the type from FUNCTION_TOOL to another type starts
\* no deployment attempt, whatever code, requirements, environmentVariables and
\* runtime it submits, and does not answer before deleteFunction on the
\* functionId it read from the record has settled: the request ends in the step
\* in which that call deletes the function or is rejected.
C15_TypeChangeDeletesSynchronously ==
    [][/\ TypeChangedAway
             => /\ attempts' = attempts
                /\ nextId' = nextId
                /\ editReq'.pc = "deleteFunction"
                /\ editReq'.existingTool = editReq.existingTool
       /\ (editReq.pc = "deleteFunction" /\ editReq' # editReq)
             => /\ editReq' = IdleReq
                /\ attempts' = attempts
                /\ \/ editReq.existingTool.functionId = NoFunction
                   \/ backend'[editReq.existingTool.functionId] = "ABSENT"
                   \/ deleteFailed']_vars

\* A tool whose create attempt ended READY with a running function has been
\* edited to another type: the function is gone, the request has ended, no
\* chain deleted it and no new functionId was generated.
C15_Witness ==
    /\ tool.exists /\ tool.type # FUNCTION_TOOL
    /\ tool.functionId \in FunctionIds
    /\ attempts[tool.functionId].kind = "create"
    /\ attempts[tool.functionId].isActive
    /\ Committed(tool.functionId)
    /\ backend[tool.functionId] = "ABSENT"
    /\ deleteCalls = {}
    /\ ~deleteFailed
    /\ editReq = IdleReq /\ delReq = IdleReq
    /\ nextId = 2

\* C16: when the tool's type was changed away from FUNCTION_TOOL
\* while an attempt was in flight, that attempt's conditional update modifies
\* nothing, leaves the record as it was and deletes the attempt's own function.
C16_TypeChangeInvalidatesAttempt ==
    [][\A i \in FunctionIds :
          (ReconcileStep(i) /\ i \in retyped)
          => /\ attempts'[i].modified = 0
             /\ tool' = tool
             /\ Call(i, i) \in deleteCalls']_vars

\* C17: when persisting or broadcasting the notification fails, the chain's
\* state write stays on the record and the chain has, when it ends, issued its
\* cleanup: deleteFunction on the new function when it is not active (create
\* and edit flow) and on the old function when the edit's new one is active.
C17_NotificationFailureKeepsCleanup ==
    /\ [][\A i \in FunctionIds :
             (attempts[i].pc = "notify" /\ attempts'[i].pc = "done")
             => tool' = tool]_vars
    /\ [](\A i \in FunctionIds :
             (attempts[i].pc = "done" /\ attempts[i].notification = "failed")
             => /\ ~attempts[i].isActive => Call(i, i) \in deleteCalls
                /\ (/\ attempts[i].kind = "edit" /\ attempts[i].isActive
                    /\ attempts[i].old # NoFunction)
                   => Call(i, attempts[i].old) \in deleteCalls)

\* C18: a poll of waitForFunctionToBeActive that observes a state other than
\* ACTIVE and DEPLOYING (the ERROR sentinel of getFunctionState included) ends
\* the call with false in that step, with no sleep after it; when it is the
\* first poll, the call has polled exactly once and never slept.
C18_ShortCircuit ==
    [][(/\ wait.pc = "poll" /\ wait' # wait
        /\ wait'.observed[Len(wait'.observed)] \notin {"ACTIVE", "DEPLOYING"})
       => /\ wait'.pc = "returned"
          /\ wait'.result = "false"
          /\ wait'.slept = wait.slept
          /\ wait'.elapsed = wait.elapsed
          /\ wait.observed = <<>>
             => Len(wait'.observed) = 1 /\ wait'.slept = <<>>]_vars

\* The first poll got the ERROR sentinel and the call returned false at once.
C18_Witness ==
    /\ wait.pc = "returned"
    /\ wait.result = "false"
    /\ wait.observed = <<"ERROR">>
    /\ wait.slept = <<>>
    /\ wait.elapsed = 0

\* 2^n
Pow2(n) == 2 ^ n

\* C19: the delay slept after the k-th poll is min(5000 * 2^(k-1), 60000) ms:
\* 5000, 10000, 20000, 40000, 60000, 60000, ...; no delay exceeds 60000 ms and
\* the delays never decrease.
C19_BackoffSequence ==
    \A k \in 1..(IF wait.pc = "idle" THEN 0 ELSE Len(wait.slept)) :
        /\ wait.slept[k] = Min(InitialWaitTime * Pow2(k - 1), MaxBackoff)
        /\ wait.slept[k] <= MaxBackoff
        /\ k > 1 => wait.slept[k - 1] <= wait.slept[k]
        /\ wait.observed[k] = "DEPLOYING"

\* The backend kept reporting DEPLOYING through six polls: the delays have
\* doubled up to the cap and stayed there.
C19_Witness ==
    /\ wait.pc # "idle"
    /\ wait.slept = <<5000, 10000, 20000, 40000, 60000, 60000>>

\* The last delay the call slept (0 when it never slept).
LastDelay == IF wait.slept = <<>> THEN 0 ELSE wait.slept[Len(wait.slept)]

\* C20 (as stated): for every maxWaitTime >= 0, with polls that take no time,
\* the call returns false at an elapsed time less than maxWaitTime plus the last
\* delay slept, and no poll starts once the elapsed time has reached maxWaitTime.
C20_ReturnsBeforeDeadlinePlusDelay ==
    (wait.pc # "idle")
    => /\ (wait.pc = "returned" /\ wait.result = "false")
          => wait.elapsed < wait.maxWaitTime + LastDelay
       /\ wait.pc = "poll" => wait.elapsed < wait.maxWaitTime

\* C20: with polls that take no time, a call that has slept returns false at an
\* elapsed time less than maxWaitTime plus the last delay slept; a call that
\* never slept returns false at elapsed time 0, which is not less than
\* maxWaitTime when maxWaitTime is 0; in every case the elapsed time is at most
\* maxWaitTime plus the last delay and less than maxWaitTime + 60000 ms, and no
\* poll starts once the elapsed time has reached maxWaitTime.
C20_ReturnsWithinDeadlinePlusDelay ==
    (wait.pc # "idle")
    => /\ (wait.pc = "returned" /\ wait.result = "false")
          => /\ wait.slept # <<>> => wait.elapsed < wait.maxWaitTime + LastDelay
             /\ wait.slept = <<>> => wait.elapsed = 0
             /\ wait.elapsed <= wait.maxWaitTime + LastDelay
             /\ wait.elapsed < wait.maxWaitTime + MaxBackoff
       /\ wait.pc = "poll" => wait.elapsed < wait.maxWaitTime

\* The call timed out: it returned false after its last sleep carried the
\* elapsed time to or past maxWaitTime.
C20_Witness ==
    /\ wait.pc = "returned"
    /\ wait.result = "false"
    /\ wait.slept # <<>>
    /\ wait.elapsed >= wait.maxWaitTime
    /\ wait.observed[Len(wait.observed)] = "DEPLOYING"

\* Every poll of the call so far observed DEPLOYING.
OnlyDeploying == \A k \in 1..Len(wait.observed) : wait.observed[k] = "DEPLOYING"

\* C21: a call of waitForFunctionToBeActive that has returned gave true exactly
\* when its last poll observed ACTIVE and every earlier poll observed DEPLOYING,
\* and then it slept after each earlier poll and not after the last; it gave
\* false, with the elapsed time at or past maxWaitTime, when every poll observed
\* DEPLOYING.
C21_TrueOnFirstActive ==
    (wait.pc = "returned")
    => /\ (wait.result = "true")
          <=> /\ wait.observed # <<>>
              /\ wait.observed[Len(wait.observed)] = "ACTIVE"
              /\ \A k \in 1..(Len(wait.observed) - 1) : wait.observed[k] = "DEPLOYING"
       /\ (wait.result = "true") => Len(wait.slept) = Len(wait.observed) - 1
       /\ OnlyDeploying => (wait.result = "false" /\ wait.elapsed >= wait.maxWaitTime)

\* The function was deploying at two polls and active at the third: the call
\* returned true after two sleeps.
C21_Witness ==
    /\ wait.pc = "returned"
    /\ wait.result = "true"
    /\ wait.observed = <<"DEPLOYING", "DEPLOYING", "ACTIVE">>
    /\ wait.slept = <<5000, 10000>>

\* C22: a poll gets from getFunctionState either the state the backend reports
\* for the function or, when the status call fails (the function is absent, or
\* the call is rejected), the sentinel 'ERROR'; nothing is raised to
\* waitForFunctionToBeActive, which returns false on the sentinel and always
\* ends with true or false.
C22_StatusFailureIsNotActive ==
    [][(wait.pc = "poll" /\ wait' # wait)
       => LET functionState == wait'.observed[Len(wait'.observed)]
          IN  /\ \/ functionState = "ERROR"
                 \/ /\ functionState = backend[wait.functionId]
                    /\ functionState \in {"DEPLOYING", "ACTIVE", "FAILED"}
              /\ backend[wait.functionId] = "ABSENT" => functionState = "ERROR"
              /\ functionState = "ERROR"
                 => wait'.pc = "returned" /\ wait'.result = "false"
              /\ wait'.pc = "returned" => wait'.result \in {"true", "false"}]_vars

\* The function was deploying at the first poll and the status call failed at
\* the second: the call returned false.
C22_Witness ==
    /\ wait.pc = "returned"
    /\ wait.result = "false"
    /\ wait.observed = <<"DEPLOYING", "ERROR">>
    /\ backend[wait.functionId] # "ABSENT"

\* The backend calls of the deployFunction call that create or update the function.
CreateOrUpdateCalls ==
    {k \in 1..Len(deploy.calls) : deploy.calls[k] \in {"createFunction", "updateFunction"}}

\* C23: deployFunction calls updateFunction only after the existence probe
\* succeeded and createFunction only after the probe failed with NOT_FOUND, at
\* most one of them and at most once; when the probe fails with another error
\* the call is rejected right after the probe and neither is called.
C23_CreateOrUpdateByProbe ==
    (deploy.pc # "idle")
    => /\ Cardinality(CreateOrUpdateCalls) <= 1
       /\ \A k \in CreateOrUpdateCalls :
              /\ deploy.calls[k] = "updateFunction" => deploy.probe = "found"
              /\ deploy.calls[k] = "createFunction" => deploy.probe = "notfound"
       /\ deploy.probe \in {"found", "notfound"}
          => (deploy.pc = "call" \/ Cardinality(CreateOrUpdateCalls) = 1)
       /\ deploy.probe = "error"
          => /\ deploy.pc = "rejected" /\ deploy.result = "rejected"
             /\ deploy.calls = <<"uploadBuffer", "getFunction">>

\* The function existed: the call probed it, updated it and resolved.
C23_Witness ==
    /\ deploy.pc = "resolved"
    /\ deploy.probe = "found"
    /\ deploy.calls = <<"uploadBuffer", "getFunction", "updateFunction">>

\* C28: within one deployFunction call the calls come in the order uploadBuffer,
\* getFunction, then createFunction or updateFunction; the artifact is stored
\* under functions/{id}/function.zip before the probe; after a failed upload
\* nothing else is called; and the function name is returned exactly when the
\* create or update call has succeeded.
C28_UploadThenProbeThenCall ==
    (deploy.pc # "idle")
    => /\ \/ deploy.calls = <<>>
          \/ deploy.calls = <<"uploadBuffer">>
          \/ deploy.calls = <<"uploadBuffer", "getFunction">>
          \/ /\ Len(deploy.calls) = 3
             /\ SubSeq(deploy.calls, 1, 2) = <<"uploadBuffer", "getFunction">>
             /\ deploy.calls[3] \in {"createFunction", "updateFunction"}
       /\ Len(deploy.calls) >= 2 => deploy.uploaded = functionZip(deploy.id)
       /\ (deploy.calls # <<>> /\ deploy.uploaded = <<>>)
          => /\ deploy.calls = <<"uploadBuffer">>
             /\ deploy.pc = "rejected" /\ deploy.result = "rejected"
       /\ (deploy.returned # <<>>)
          <=> /\ deploy.pc = "resolved"
              /\ Len(deploy.calls) = 3
              /\ backend[deploy.id] = "DEPLOYING"
       /\ deploy.returned # <<>> => deploy.returned = functionName(deploy.id)
       /\ deploy.pc = "resolved" <=> deploy.result = "resolved"

\* The function did not exist: the artifact was uploaded, the probe answered
\* NOT_FOUND, createFunction succeeded and the name was returned.
C28_Witness ==
    /\ deploy.pc = "resolved"
    /\ deploy.uploaded = functionZip(deploy.id)
    /\ deploy.calls = <<"uploadBuffer", "getFunction", "createFunction">>
    /\ deploy.returned = functionName(deploy.id)

\* C24: when the deleteFunction awaited by deleteToolApi is rejected, the
\* rejection reaches the handler, which ends there: the step leaves the tool
\* record, the agents' reference to it and the backend as they were, and the
\* request never comes to deleteToolById and removeAgentsTool.
C24_DeleteFailureKeepsRecord ==
    [][/\ (/\ delReq.pc = "deleteFunction" /\ delReq' # delReq
           /\ (delReq'.pc # "remove" \/ (~deleteFailed /\ deleteFailed')))
          => /\ delReq' = RejectedReq
             /\ deleteFailed'
             /\ tool' = tool
             /\ agentHasTool' = agentHasTool
             /\ backend' = backend
       /\ (delReq = RejectedReq /\ delReq' = delReq)
          => /\ tool.exists => tool'.exists
             /\ agentHasTool => agentHasTool']_vars

\* The delete request of a FUNCTION_TOOL ended in a rejected deleteFunction: the
\* record is still there, and so are the agent's reference and the function.
C24_Witness ==
    /\ delReq = RejectedReq
    /\ deleteFailed
    /\ tool.exists /\ tool.type = FUNCTION_TOOL
    /\ agentHasTool
    /\ tool.functionId \in FunctionIds
    /\ backend[tool.functionId] = "ACTIVE"

\* C25: the create or edit request that starts a deployment attempt answers in
\* the step that starts it, while the attempt is still undeployed, and the edit
\* request is over in that step; the answer, 302, stays what it is through every
\* later step, however the attempt ends.
C25_ResponseBeforeDeployment ==
    [][\A i \in FunctionIds :
          /\ (attempts[i].pc = "idle" /\ attempts'[i].pc # "idle")
             => /\ attempts'[i].pc = "deploy"
                /\ attempts'[i].response = 302
                /\ backend'[i] = "ABSENT"
                /\ attempts'[i].kind = "edit" => editReq' = IdleReq
          /\ attempts[i].pc # "idle"
             => attempts'[i].response = attempts[i].response]_vars

\* One attempt ended READY and active, the other found itself superseded and
\* deleted its function: both requests were answered 302.
C25_Witness ==
    \E i, j \in FunctionIds :
        /\ attempts[i].pc = "done" /\ attempts[i].isActive /\ attempts[i].modified = 1
        /\ attempts[j].pc = "done" /\ attempts[j].modified = 0
        /\ attempts[i].response = 302
        /\ attempts[j].response = 302

C27_TerminatesAfterSixPolls ==
    /\ <>(wait.pc = "returned")
    /\ []((/\ wait.pc = "returned"
           /\ wait.maxWaitTime = DefaultMaxWaitTime
           /\ OnlyDeploying)
          => /\ wait.result = "false"
             /\ wait.polledAt = <<0, 5000, 15000, 35000, 75000, 135000>>)

\* The default call timed out on a function that kept deploying: six polls,
\* six sleeps, false at 195000 ms.
C27_Witness ==
    /\ wait.pc = "returned"
    /\ wait.maxWaitTime = DefaultMaxWaitTime
    /\ wait.observed = <<"DEPLOYING", "DEPLOYING", "DEPLOYING", "DEPLOYING", "DEPLOYING", "DEPLOYING">>
    /\ wait.result = "false"
    /\ wait.elapsed = 195000

\* C29: whenever no request and no attempt is in progress and no call has been
\* rejected, a FUNCTION_TOOL record in state READY names a function that exists
\* in the backend.
C29_ReadyFunctionExists ==
    (/\ Quiescent
     /\ NoFault
     /\ tool.exists
     /\ tool.type = FUNCTION_TOOL
     /\ tool.state = READY
     /\ tool.functionId \in FunctionIds)
    => backend[tool.functionId] # "ABSENT"

\* C30: two edit attempts 1 then 2 of the tool, the second one started before the
\* first one's update, both found ACTIVE: once both have resolved and their
\* notifications and deletions are through, the record names function 2 and
\* function 1 is gone.
C30_LatestEditWins ==
    (/\ Quiescent
     /\ NoFault
     /\ tool.exists
     /\ tool.type = FUNCTION_TOOL
     /\ \A i \in {1, 2} : /\ attempts[i].kind = "edit"
                          /\ attempts[i].pc = "done"
                          /\ attempts[i].isActive
     /\ attempts[2].old # 1)
    => /\ tool.functionId = 2
       /\ backend[1] = "ABSENT"

\* C33: a call of waitForFunctionToBeActive with maxWaitTime > 0 polls the
\* function state at least once, the first time at elapsed time 0, before it
\* returns; a call with maxWaitTime <= 0 never polls and returns false, whatever
\* state the backend reports for the function.
C33_PollsIffPositiveDeadline ==
    /\ (wait.maxWaitTime > 0 /\ wait.pc = "returned")
       => /\ Len(wait.polledAt) >= 1
          /\ wait.polledAt[1] = 0
    /\ (wait.maxWaitTime > 0 /\ wait.pc = "test" /\ wait.elapsed = 0)
       => loopCondition(wait.elapsed, wait.maxWaitTime)
    /\ wait.maxWaitTime <= 0
       => /\ wait.pc \in {"test", "returned"}
          /\ wait.observed = <<>>
          /\ wait.slept = <<>>
          /\ wait.pc = "returned" => wait.result = "false"

\* A call with a negative maxWaitTime has returned false without a poll although
\* the function is ACTIVE.
C33_Witness ==
    /\ wait.pc = "returned"
    /\ wait.maxWaitTime < 0
    /\ wait.result = "false"
    /\ wait.observed = <<>>
    /\ backend[wait.functionId] = "ACTIVE"

\* C31: once the delete flow has deleted the function of a FUNCTION_TOOL and
\* removed its record, no handler and no attempt is in progress any more and no
\* call was rejected, no function deployed for the tool is left in the backend.
C31_NoFunctionAfterDelete ==
    (/\ delReq = RemovedFunctionToolReq
     /\ tool.deleted
     /\ Quiescent
     /\ NoFault)
    => \A f \in FunctionIds : backend[f] = "ABSENT"

\* C32: with no edit and no delete request, and every chain kept running, a
\* FUNCTION_TOOL record in state PENDING leads to the record in state READY or
\* ERROR.
C32_PendingResolves ==
    (tool.exists /\ tool.type = FUNCTION_TOOL /\ tool.state = PENDING)
    ~> (tool.exists /\ tool.type = FUNCTION_TOOL /\ tool.state \in {READY, ERROR})

====
